---- MODULE Spec2Model ----
(***************************************************************************)
(* Model of src/src/main.py: YouTubeAnalyzer and main().                   *)
(*                                                                         *)
(* One process, one discovery run.  The control position pc follows        *)
(* main(): construct the analyzer, run get_channels_from_country (the      *)
(* while loop of line 119, the for loop of line 128), hand the result to   *)
(* save_to_json.  The two collaborators (search().list and                 *)
(* channels().list of the platform client) are the environment: the        *)
(* search result set is drawn at Init, the metadata answer for a channel   *)
(* is drawn when the channel is inspected.                                 *)
(*                                                                         *)
(* Python values: a str is a tuple of text atoms (a numeric string is the  *)
(* tuple of its characters), None is the tuple None, a dict is a function  *)
(* whose DOMAIN is its key set, an int is an integer.                      *)
(***************************************************************************)
EXTENDS Integers, Sequences, FiniteSets, TLC

VARIABLES
    pc,             \* control position of main / get_channels_from_country
    api_key,        \* os.getenv("YOUTUBE_API_KEY")
    youtube,        \* self.youtube: the API client, once built
    resultSet,      \* the search collaborator's result set: a sequence of pages
    response,       \* the response of the last search request (line 120)
    pageNo,         \* which page of resultSet that response delivered (0: none yet)
    idx,            \* position of the for loop of line 128 in response.items
    channel_id,     \* local channel_id of line 129 (0: none yet)
    channel_info,   \* local channel_info of line 134
    channels,       \* local channels (the output collection)
    seen_channels,  \* local seen_channels (the SeenSet)
    meta,           \* what the metadata collaborator answered, per channel id
    failure,        \* which except clause of the run fired: "none", "search", "record"
    returned,       \* the value get_channels_from_country returned
    json_file,      \* the file of save_to_json: whether it was written, and the data
    lookups,        \* how many channels().list requests were issued, per channel id
    sink_calls      \* the data of each save_to_json call, in call order

vars == <<pc, api_key, youtube, resultSet, response, pageNo, idx, channel_id,
          channel_info, channels, seen_channels, meta, failure, returned, json_file,
          lookups, sink_calls>>

----------------------------------------------------------------------------
(* Program constants *)

MaxChannels == 50        \* the cap of lines 119 and 152
Threshold == 50000       \* the admission threshold of line 83

(* Bounds of the model *)

OddIds == 2              \* channel ids 1..OddIds get an arbitrary metadata answer
MaxPageLen == 2          \* longest page of a small result set
MaxPages == 2            \* most pages of a result set
Extra == 1               \* how far a long page may exceed the cap

----------------------------------------------------------------------------
(* Python values *)

\* None is an atom of its own: no str of the model is this tuple
None == <<"NoneType">>
NA == <<"N/A">>
EmptyDict == <<>>

IsEmptyDict(d) == DOMAIN d = {}

\* d.get(k, default)
Get(d, k, default) == IF k \in DOMAIN d THEN d[k] ELSE default

DigitChars == {"0", "1", "2", "3", "4", "5", "6", "7", "8", "9"}

DigitVal(c) ==
    CASE c = "0" -> 0 [] c = "1" -> 1 [] c = "2" -> 2 [] c = "3" -> 3
      [] c = "4" -> 4 [] c = "5" -> 5 [] c = "6" -> 6 [] c = "7" -> 7
      [] c = "8" -> 8 [] c = "9" -> 9

\* int(s) raises ValueError unless s is a non-empty run of decimal digits
\* (the collaborator sends unsigned decimal strings or text).
IntRaises(s) == s = <<>> \/ \E i \in 1..Len(s) : s[i] \notin DigitChars

RECURSIVE IntValue(_)
IntValue(s) ==
    IF s = <<>> THEN 0
    ELSE IntValue(SubSeq(s, 1, Len(s) - 1)) * 10 + DigitVal(s[Len(s)])

\* int(d.get(k, 0)): the default 0 is already an int
IntGetRaises(d, k) == k \in DOMAIN d /\ IntRaises(d[k])
IntGet(d, k) == IF k \in DOMAIN d THEN IntValue(d[k]) ELSE 0

----------------------------------------------------------------------------
(* The environment: channel ids, the search result set, metadata answers *)

FirstPlain == OddIds + 1
LastId == OddIds + MaxChannels + Extra
Ids == 1..LastId
SmallIds == 1..FirstPlain

SeqsUpTo(S, n) == UNION {[1..k -> S] : k \in 0..n}

\* a long page: n distinct plain channels
Ramp(n) == [i \in 1..n |-> OddIds + i]

SmallPages == SeqsUpTo(SmallIds, MaxPageLen)
LongPages == {Ramp(n) : n \in (MaxChannels - 1)..(MaxChannels + Extra)}
Pages == SmallPages \cup LongPages

\* a later page holding one channel that page one does not hold
FreshPage == <<OddIds + 2>>

\* A result set is page one followed by pages that repeat its hits, or by
\* pages that hold another channel.
ResultSets ==
    {[p \in 1..n |-> page] : page \in Pages, n \in 1..MaxPages}
    \cup {[p \in 1..n |-> IF p = 1 THEN page ELSE FreshPage] :
            page \in Pages, n \in 2..MaxPages}

\* A str is the sequence of its characters. The descriptions the metadata
\* collaborator may send: an address and a foreign URL after a platform link,
\* an address only, a URL only, neither.
FullDescription ==
    <<"h", "i", " ", "h", "t", "t", "p", "s", ":", "/", "/", "y", "o", "u",
      "t", "u", ".", "b", "e", "/", "x", " ", "a", "@", "b", ".", "c", "o",
      " ", "h", "t", "t", "p", "s", ":", "/", "/", "e", ".", "o", "r", "g">>
EmailOnlyDescription ==
    <<"m", ":", " ", "x", ".", "y", "@", "b", ".", "c", "o", ".", "u", "k",
      ",", " ", "h", "t", "t", "p", "s", ":", "/", "/", "y", "o", "u", "t",
      "u", "b", "e", ".", "c", "o", "m", "/", "c">>
WebOnlyDescription ==
    <<"s", "e", "e", " ", "<", "h", "t", "t", "p", ":", "/", "/", "w", "w",
      "w", ".", "e", ".", "o", "r", "g", "/", "a", ">", " ", "b", "a", "d",
      "@", "x">>
NoContactDescription ==
    <<"o", "n", " ", "h", "t", "t", "p", "s", ":", "/", "/", "y", "o", "u",
      "t", "u", ".", "b", "e", "/", "x">>

OtherDescriptions ==
    {EmailOnlyDescription, WebOnlyDescription, NoContactDescription}

FullSnippet ==
    [title |-> <<"Title">>, description |-> FullDescription, country |-> <<"US">>,
     publishedAt |-> <<"2020-01-01T00:00:00Z">>, customUrl |-> <<"@custom">>]
BareSnippet == EmptyDict

Num100 == <<"1", "0", "0">>
Num50000 == <<"5", "0", "0", "0", "0">>
Num50001 == <<"5", "0", "0", "0", "1">>
Num60000 == <<"6", "0", "0", "0", "0">>
Num7 == <<"7">>
Num3 == <<"3">>
NotANumber == <<"a", "b", "c">>

Stats(sub, view, video) == [subscriberCount |-> sub, viewCount |-> view, videoCount |-> video]
PlainStats == Stats(Num100, Num7, Num3)

StatisticsSet ==
    {Stats(sub, Num7, Num3) : sub \in {Num100, Num50000, Num50001, Num60000, NotANumber}}
    \cup {[viewCount |-> Num7, videoCount |-> Num3]}
    \cup {Stats(Num100, NotANumber, Num3), Stats(Num100, Num7, NotANumber)}
    \cup {[subscriberCount |-> Num100, videoCount |-> Num3],
          [subscriberCount |-> Num100, viewCount |-> Num7]}

\* answers of channels().list(part="snippet,contentDetails,statistics", id=...).execute()
HttpErrorResponse == [kind |-> "HttpError", items |-> <<>>]
NotFoundResponse == [kind |-> "ok", items |-> <<>>]
Found(channel_data) == [kind |-> "ok", items |-> <<channel_data>>]
Unasked == [kind |-> "unasked", items |-> <<>>]

PlainResponse == Found([snippet |-> FullSnippet, statistics |-> PlainStats])

Responses ==
    {HttpErrorResponse, NotFoundResponse}
    \cup {Found([snippet |-> FullSnippet])}
    \cup {Found([snippet |-> FullSnippet, statistics |-> st]) : st \in StatisticsSet}
    \cup {Found([snippet |-> BareSnippet, statistics |-> PlainStats])}
    \cup {Found([snippet |-> [FullSnippet EXCEPT !.description = d],
                 statistics |-> PlainStats]) : d \in OtherDescriptions}

MetaResponses(id) == IF id <= OddIds THEN Responses ELSE {PlainResponse}

ApiKeys == {None, <<>>, <<"KEY">>}

\* answer of search().list(...).execute() to a request with page token `token`
\* (NoToken: the first page)
NoToken == 0
SearchList(rs, token) ==
    LET p == IF token = NoToken THEN 1 ELSE token
    IN  [items |-> rs[p],
         nextPageToken |-> IF p < Len(rs) THEN p + 1 ELSE NoToken,
         page |-> p]

----------------------------------------------------------------------------
(* YouTubeAnalyzer *)

\* faulty variant: the key is not tested
KeyNeverMissing(key) == FALSE

\* line 28: `not self.api_key` holds for None and for the empty string
KeyMissing(key) == key = None \/ key = <<>>

\* faulty variants of the admission test: an exclusive bound, no bound
AdmittedBelow(subscriber_count) == subscriber_count < Threshold
AdmittedAll(subscriber_count) == TRUE

\* line 83: a channel is dropped when `subscriber_count > 50000`
Admitted(subscriber_count) == ~(subscriber_count > Threshold)

\* the default of line 91: f"https://youtube.com/channel/{channel_id}"
ChannelUrl(cid) == <<"https://youtube.com/channel/", cid>>

\* faulty variant: the except clauses return a dict of defaults, as those of
\* get_channel_statistics do
ErrorReturnDefaults ==
    [title |-> None, description |-> <<>>, country |-> NA, publishedAt |-> None,
     customUrl |-> None, statistics |-> EmptyDict]

\* lines 96 and 99: what get_channel_info returns from its except clauses
ErrorReturn == EmptyDict

\* lines 65-99.  resp is what channels().list(...).execute() does: it raises
\* HttpError or returns a response.  The result {} is EmptyDict.
get_channel_info(cid, resp) ==
    IF resp.kind = "HttpError" THEN ErrorReturn                   \* lines 94-96
    ELSE IF Get(resp, "items", <<>>) = <<>> THEN EmptyDict        \* lines 73-75
    ELSE LET channel_data == resp.items[1] IN
         IF ~({"snippet", "statistics"} \subseteq DOMAIN channel_data)
         THEN ErrorReturn                                         \* KeyError, lines 97-99
         ELSE LET snippet == channel_data["snippet"]
                  statistics == channel_data["statistics"]
              IN  IF IntGetRaises(statistics, "subscriberCount")
                  THEN ErrorReturn                                \* ValueError, lines 97-99
                  ELSE IF ~Admitted(IntGet(statistics, "subscriberCount"))
                  THEN EmptyDict                                  \* lines 83-84
                  ELSE [title |-> Get(snippet, "title", None),
                        description |-> Get(snippet, "description", <<>>),
                        country |-> Get(snippet, "country", NA),
                        publishedAt |-> Get(snippet, "publishedAt", None),
                        customUrl |-> Get(snippet, "customUrl", ChannelUrl(cid)),
                        statistics |-> statistics]

\* character classes of the two patterns of lines 103-104
LowerChars ==
    {"a", "b", "c", "d", "e", "f", "g", "h", "i", "j", "k", "l", "m", "n",
      "o", "p", "q", "r", "s", "t", "u", "v", "w", "x", "y", "z"}
UpperChars ==
    {"A", "B", "C", "D", "E", "F", "G", "H", "I", "J", "K", "L", "M", "N",
      "O", "P", "Q", "R", "S", "T", "U", "V", "W", "X", "Y", "Z"}
WordChars == LowerChars \cup UpperChars \cup DigitChars \cup {"_"}          \* \w
LocalChars == LowerChars \cup UpperChars \cup DigitChars \cup {".", "_", "%", "+", "-"}
DomainChars == LowerChars \cup UpperChars \cup DigitChars \cup {".", "-"}
TldChars == LowerChars \cup UpperChars \cup {"|"}                          \* [A-Z|a-z]
UrlStopChars == {" ", "\t", "\n", "\r", "\f", "<", ">", "\""}             \* \s < > "

\* \b between s[i] and s[i+1]: exactly one side is a word character
IsWordAt(s, i) == i >= 1 /\ i <= Len(s) /\ s[i] \in WordChars
Boundary(s, i) == IsWordAt(s, i) # IsWordAt(s, i + 1)

\* the literal lit stands in s at position i
StartsWith(s, i, lit) ==
    /\ i >= 1
    /\ i + Len(lit) - 1 <= Len(s)
    /\ SubSeq(s, i, i + Len(lit) - 1) = lit

\* a greedy class+ from position i: the last position of the longest run of
\* characters that are in class (in = TRUE) or not in class (in = FALSE);
\* i - 1 when the run is empty
RunEnd(s, i, class, in) ==
    LET stops == {j \in i..Len(s) : (s[j] \in class) # in}
    IN  IF stops = {} THEN Len(s)
        ELSE (CHOOSE j \in stops : \A k \in stops : j <= k) - 1

\* line 103 tried at start position i: the last position of the match, 0 when
\* there is none. The local part is the run up to the @; the domain is taken
\* as long as possible, then the top-level part as long as possible.
EmailEndAt(s, i) ==
    LET l == RunEnd(s, i, LocalChars, TRUE)
        r == RunEnd(s, l + 2, DomainChars, TRUE)
        TldEnds(k) == {e \in (k + 3)..(k + 8) :
                         /\ e <= Len(s)
                         /\ \A j \in (k + 2)..e : s[j] \in TldChars
                         /\ Boundary(s, e)}
        dots == {k \in (l + 2)..r : StartsWith(s, k + 1, <<".">>) /\ TldEnds(k) # {}}
    IN  IF Boundary(s, i - 1) /\ l >= i /\ StartsWith(s, l + 1, <<"@">>) /\ dots # {}
        THEN LET k == CHOOSE d \in dots : \A o \in dots : d >= o
             IN  CHOOSE e \in TldEnds(k) : \A o \in TldEnds(k) : e >= o
        ELSE 0

\* line 104 tried at start position i: http, an optional s, ://, an optional
\* www. that is given up when the lookahead fails behind it, the lookahead,
\* then the longest run of characters that are no space, <, > or "
WebsiteEndAt(s, i) ==
    LET p == IF StartsWith(s, i, <<"h", "t", "t", "p", "s">>) THEN i + 5 ELSE i + 4
        q == p + 3
        w == IF StartsWith(s, q, <<"w", "w", "w", ".">>) THEN q + 4 ELSE q
        Rest(t) == /\ ~StartsWith(s, t, <<"y", "o", "u", "t", "u", "b", "e", ".", "c", "o", "m">>)
                   /\ ~StartsWith(s, t, <<"y", "o", "u", "t", "u", ".", "b", "e">>)
                   /\ RunEnd(s, t, UrlStopChars, FALSE) >= t
    IN  IF /\ StartsWith(s, i, <<"h", "t", "t", "p">>)
           /\ StartsWith(s, p, <<":", "/", "/">>)
           /\ (Rest(w) \/ Rest(q))
        THEN RunEnd(s, q, UrlStopChars, FALSE)
        ELSE 0

\* the pattern tried at every start position of the description
EmailEnds(description) ==
    [i \in 1..Len(description) |-> EmailEndAt(description, i)]
WebsiteEnds(description) ==
    [i \in 1..Len(description) |-> WebsiteEndAt(description, i)]

\* re.search(pattern, description): the match at the leftmost position where
\* the pattern matches, None when it matches nowhere
FirstMatch(description, ends) ==
    LET hits == {i \in 1..Len(description) : ends[i] # 0}
    IN  IF hits = {} THEN None
        ELSE LET i == CHOOSE h \in hits : \A o \in hits : h <= o
             IN  SubSeq(description, i, ends[i])

\* faulty variant: no website is looked for when there is no address
extract_contact_info_together(description) ==
    LET email == FirstMatch(description, EmailEnds(description))
        website == IF email # None THEN FirstMatch(description, WebsiteEnds(description)) ELSE None
    IN  [email |-> IF email # None THEN email ELSE NA,
         website |-> IF website # None THEN website ELSE NA]

\* lines 101-112
extract_contact_info(description) ==
    LET email == FirstMatch(description, EmailEnds(description))
        website == FirstMatch(description, WebsiteEnds(description))
    IN  [email |-> IF email # None THEN email ELSE NA,
         website |-> IF website # None THEN website ELSE NA]

\* line 136: extract_contact_info over the descriptions that can reach it
AllDescriptions == {<<>>, FullDescription} \cup OtherDescriptions
ContactInfoOf == [d \in AllDescriptions |-> extract_contact_info(d)]

\* lines 145-147: one of the three int(...) raises ValueError
RecordRaises(info) ==
    LET statistics == Get(info, "statistics", EmptyDict)
    IN  \/ IntGetRaises(statistics, "subscriberCount")
        \/ IntGetRaises(statistics, "viewCount")
        \/ IntGetRaises(statistics, "videoCount")

\* lines 136-150: the record appended for an admitted channel
MakeRecord(cid, info) ==
    LET contact_info == ContactInfoOf[Get(info, "description", <<>>)]
        statistics == Get(info, "statistics", EmptyDict)
    IN  [channelId |-> cid,
         name |-> Get(info, "title", NA),
         url |-> Get(info, "customUrl", None),
         country |-> Get(info, "country", NA),
         createDate |-> Get(info, "publishedAt", NA),
         subscribers |-> IntGet(statistics, "subscriberCount"),
         totalViews |-> IntGet(statistics, "viewCount"),
         totalVideos |-> IntGet(statistics, "videoCount"),
         email |-> contact_info.email,
         website |-> contact_info.website]

\* faulty variant: the while loop runs once more at the cap
WhileCondLate(chs) == Len(chs) <= MaxChannels

\* line 119: the while condition
WhileCond(chs) == Len(chs) < MaxChannels

\* faulty variant: the break comes one record late
BreakCondLate(chs) == Len(chs) > MaxChannels

\* line 152: the break condition
BreakCond(chs) == Len(chs) >= MaxChannels

\* faulty variant: no hit counts as seen
NeverSeen(cid, seen) == FALSE

\* line 130: the duplicate test
AlreadySeen(cid, seen) == cid \in seen

\* lines 120-126: the request names no pageToken
RequestToken(resp) == NoToken

\* faulty variant: the except clause returns what was accumulated
SalvageReturn(chs) == chs

\* lines 156-158: what the except clause returns
ExceptReturn(chs) == <<>>

\* faulty variant: the except clause re-raises, as that of save_to_json does
ExceptReraises == "raised"

\* lines 156-158: the except clause returns to the caller
ExceptOutcome == "returned"

\* faulty variants: the id is not recorded; the set is replaced by the id
MarkSeenForgets(cid, seen) == seen
MarkSeenReplaces(cid, seen) == {cid}

\* line 132: seen_channels.add(channel_id)
MarkSeen(cid, seen) == seen \cup {cid}

\* faulty variant: the record is put in front
PrependRecord(chs, record) == <<record>> \o chs

\* line 139: channels.append(...)
AppendRecord(chs, record) == Append(chs, record)

----------------------------------------------------------------------------
(* State machine *)

NoFile == [written |-> FALSE, data |-> <<>>]

NoResponse == [items |-> <<>>, nextPageToken |-> NoToken, page |-> 0]

Init ==
    /\ pc = "start"
    /\ api_key \in ApiKeys
    /\ youtube = None
    /\ resultSet \in ResultSets
    /\ response = NoResponse
    /\ pageNo = 0
    /\ idx = 0
    /\ channel_id = 0
    /\ channel_info = EmptyDict
    /\ channels = <<>>
    /\ seen_channels = {}
    /\ meta = [i \in Ids |-> Unasked]
    /\ failure = "none"
    /\ returned = <<>>
    /\ json_file = NoFile
    /\ lookups = [i \in Ids |-> 0]
    /\ sink_calls = <<>>

\* lines 24-38, 178: YouTubeAnalyzer(); a missing key raises before build()
Construct ==
    /\ pc = "start"
    /\ IF KeyMissing(api_key)
       THEN /\ pc' = "raised"
            /\ UNCHANGED youtube
       ELSE \E built \in BOOLEAN :
              IF built THEN /\ youtube' = <<"client">>
                            /\ pc' = "main"
                       ELSE /\ pc' = "raised"
                            /\ UNCHANGED youtube
    /\ UNCHANGED <<api_key, resultSet, response, pageNo, idx, channel_id, channel_info,
                   channels, seen_channels, meta, failure, returned, json_file,
                   lookups, sink_calls>>

\* lines 181, 116-117: the call, with its two fresh locals
Discover ==
    /\ pc = "main"
    /\ channels' = <<>>
    /\ seen_channels' = {}
    /\ pc' = "while"
    /\ UNCHANGED <<api_key, youtube, resultSet, response, pageNo, idx, channel_id,
                   channel_info, meta, failure, returned, json_file,
                   lookups, sink_calls>>

\* lines 119-128: the while test holds and the search request is answered
Search ==
    /\ pc = "while"
    /\ WhileCond(channels)
    /\ LET r == SearchList(resultSet, RequestToken(response)) IN
         /\ response' = r
         /\ pageNo' = r.page
         /\ idx' = 1
         /\ pc' = IF Get(r, "items", <<>>) = <<>> THEN "while" ELSE "for"
    /\ UNCHANGED <<api_key, youtube, resultSet, channel_id, channel_info, channels,
                   seen_channels, meta, failure, returned, json_file,
                   lookups, sink_calls>>

\* lines 119-126, 156-158: the search request raises
SearchFails ==
    /\ pc = "while"
    /\ WhileCond(channels)
    /\ failure' = "search"
    /\ returned' = ExceptReturn(channels)
    /\ pc' = ExceptOutcome
    /\ UNCHANGED <<api_key, youtube, resultSet, response, pageNo, idx, channel_id,
                   channel_info, channels, seen_channels, meta, json_file,
                   lookups, sink_calls>>

\* the for loop moves on: the next item, or the while test after the last one
NextItem ==
    IF idx < Len(response.items)
    THEN /\ idx' = idx + 1
         /\ pc' = "for"
    ELSE /\ idx' = idx + 1
         /\ pc' = "while"

\* lines 128-131: a hit whose channel id was seen is skipped
SkipSeen ==
    /\ pc = "for"
    /\ channel_id' = response.items[idx]
    /\ AlreadySeen(response.items[idx], seen_channels)
    /\ NextItem
    /\ UNCHANGED <<api_key, youtube, resultSet, response, pageNo, channel_info, channels,
                   seen_channels, meta, failure, returned, json_file,
                   lookups, sink_calls>>

\* lines 128-153: a new hit is recorded as seen and inspected
Inspect ==
    /\ pc = "for"
    /\ ~AlreadySeen(response.items[idx], seen_channels)
    /\ \E resp \in MetaResponses(response.items[idx]) :
         LET cid == response.items[idx]
             info == get_channel_info(cid, resp)
         IN  /\ channel_id' = cid
             /\ seen_channels' = MarkSeen(cid, seen_channels)
             /\ lookups' = [lookups EXCEPT ![cid] = @ + 1]
             /\ meta' = [meta EXCEPT ![cid] = resp]
             /\ channel_info' = info
             /\ IF IsEmptyDict(info)
                THEN /\ NextItem
                     /\ UNCHANGED <<channels, failure, returned>>
                ELSE IF RecordRaises(info)
                THEN /\ failure' = "record"
                     /\ returned' = ExceptReturn(channels)
                     /\ pc' = ExceptOutcome
                     /\ UNCHANGED <<channels, idx>>
                ELSE /\ channels' = AppendRecord(channels, MakeRecord(cid, info))
                     /\ IF BreakCond(channels')
                        THEN /\ pc' = "while"
                             /\ UNCHANGED idx
                        ELSE NextItem
                     /\ UNCHANGED <<failure, returned>>
    /\ UNCHANGED <<api_key, youtube, resultSet, response, pageNo, json_file,
                   sink_calls>>

\* lines 119, 155: the while test fails and the run returns channels
Return ==
    /\ pc = "while"
    /\ ~WhileCond(channels)
    /\ returned' = channels
    /\ pc' = "returned"
    /\ UNCHANGED <<api_key, youtube, resultSet, response, pageNo, idx, channel_id,
                   channel_info, channels, seen_channels, meta, failure, json_file,
                   lookups, sink_calls>>

\* lines 160-174, 182: the sink writes the file, or raises and main re-raises
SaveToJson ==
    /\ pc = "returned"
    /\ sink_calls' = Append(sink_calls, returned)
    /\ \E written \in BOOLEAN :
         IF written THEN /\ json_file' = [written |-> TRUE, data |-> returned]
                         /\ pc' = "saved"
                    ELSE /\ pc' = "raised"
                         /\ UNCHANGED json_file
    /\ UNCHANGED <<api_key, youtube, resultSet, response, pageNo, idx, channel_id,
                   channel_info, channels, seen_channels, meta, failure, returned,
                   lookups>>

Next ==
    \/ Construct
    \/ Discover
    \/ Search
    \/ SearchFails
    \/ SkipSeen
    \/ Inspect
    \/ Return
    \/ SaveToJson

Spec == Init /\ [][Next]_vars

\* The process is single-threaded and every call blocks until it is answered:
\* a step that can be taken is taken.
FairSpec == Init /\ [][Next]_vars /\ WF_vars(Next)

----------------------------------------------------------------------------
(* Properties *)

ChannelIdsOf(chs) == {chs[i].channelId : i \in 1..Len(chs)}
PageIds(page) == {page[i] : i \in 1..Len(page)}

\* the metadata collaborator's answer, read without the inspector
ReportsNoItem(resp) == resp.kind = "ok" /\ resp.items = <<>>
TransportError(resp) == resp.kind = "HttpError"
HasItem(resp) == resp.kind = "ok" /\ resp.items # <<>>
UnexpectedShape(resp) ==
    /\ HasItem(resp)
    /\ \/ "snippet" \notin DOMAIN resp.items[1]
       \/ "statistics" \notin DOMAIN resp.items[1]
       \/ /\ "subscriberCount" \in DOMAIN resp.items[1].statistics
          /\ IntRaises(resp.items[1].statistics.subscriberCount)
LookupFails(resp) == TransportError(resp) \/ UnexpectedShape(resp)
WellFormed(resp) == HasItem(resp) /\ ~UnexpectedShape(resp)
SubscriberCount(resp) ==
    IF "subscriberCount" \in DOMAIN resp.items[1].statistics
    THEN IntValue(resp.items[1].statistics.subscriberCount)
    ELSE 0

\* the step in which a new hit is inspected
InspectStep == pc = "for" /\ seen_channels' # seen_channels
\* the step in which a search request is answered
SearchStep == pc = "while" /\ pc' \in {"while", "for"}

\* C1: from the while test of a discovery run, the run eventually returns,
\* whatever the upstream (also when the result set holds fewer than 50
\* distinct admissible channels).
C1_DiscoverTerminates == (pc = "while") ~> (pc = "returned")

\* C2: the output collection, and the returned sequence, never hold more
\* than 50 records.
C2_AtMostCap == Len(channels) <= 50 /\ Len(returned) <= 50

\* C2 witness: the run returned 50 records from a page that held more hits.
C2_Witness ==
    /\ pc = "returned"
    /\ Len(returned) = 50
    /\ Len(response.items) > 50

\* C3: the channelId values of the records of the output collection are
\* pairwise distinct.
C3_DistinctIds ==
    \A i, j \in 1..Len(channels) :
        channels[i].channelId = channels[j].channelId => i = j

\* C3 witness: a channel that has a record was returned a second time within
\* the page, and the repeat was passed over.
C3_Witness ==
    /\ \E i, j \in 1..Len(response.items) :
         /\ i < j
         /\ j < idx
         /\ response.items[i] = response.items[j]
         /\ response.items[i] \in ChannelIdsOf(channels)
    /\ Len(channels) >= 1

C5_Upstream ==
    /\ Len(resultSet) >= 2
    /\ \A p \in 1..Len(resultSet) : PageIds(resultSet[p]) = PageIds(resultSet[1])
    /\ Cardinality(PageIds(resultSet[1])) >= 2
    /\ Cardinality(PageIds(resultSet[1])) < 50
    /\ seen_channels = PageIds(resultSet[1])
    /\ ChannelIdsOf(channels) = PageIds(resultSet[1])

\* C5: when the pages of the result set hold the same k < 50 channel ids and
\* all k are admitted, the run returns exactly k records (unless a search
\* request fails).
C5_ReturnsOnePerChannel ==
    (pc = "while" /\ C5_Upstream)
        ~> (pc = "returned"
            /\ (failure = "search" \/ Len(returned) = Cardinality(PageIds(resultSet[1]))))

\* C6: a search request that follows a response is issued only when that
\* response named a further page, and it fetches that page.
C6_PagerFollowsPages ==
    [][(SearchStep /\ pageNo >= 1)
          => (response.nextPageToken # NoToken /\ pageNo' = response.nextPageToken)]_vars

\* C7: when a search request fails, the run returns the empty sequence to
\* its caller, whatever was accumulated.
C7_SearchFailureReturnsEmpty ==
    [][(pc = "while" /\ failure' = "search") => (pc' = "returned" /\ returned' = <<>>)]_vars

\* C7 witness: a search request failed after records had been accumulated,
\* and the empty sequence was handed to the sink.
C7_Witness ==
    /\ failure = "search"
    /\ Len(channels) >= 1
    /\ json_file.written
    /\ json_file.data = <<>>

\* C8: when the metadata lookup of a channel fails (transport error or
\* unexpected response shape), the inspector yields no record, the output
\* collection and the run's result are untouched, the run is not aborted,
\* and the for loop moves on to the next hit.
C8_LookupFailureIsSoft ==
    [][(InspectStep /\ LookupFails(meta'[channel_id']))
          => /\ IsEmptyDict(channel_info')
             /\ channels' = channels
             /\ failure' = failure
             /\ returned' = returned
             /\ idx' = idx + 1
             /\ pc' = IF idx < Len(response.items) THEN "for" ELSE "while"]_vars

\* C8 witness: after a failed lookup of one channel, a later hit of the same
\* page was inspected and got its record, next to an earlier one.
C8_Witness ==
    /\ \E id \in seen_channels : LookupFails(meta[id]) /\ id # channel_id
    /\ channel_id \in ChannelIdsOf(channels)
    /\ ~IsEmptyDict(channel_info)
    /\ pageNo = 1

\* a statistic as the defaults of the data model give it: 0 when the field
\* is missing or does not parse
Defaulted(statistics, k) ==
    IF k \in DOMAIN statistics /\ ~IntRaises(statistics[k])
    THEN IntValue(statistics[k]) ELSE 0

\* C9: a data-shape error in a channel's statistics never aborts the run:
\* every inspected channel whose answer carries statistics and whose
\* subscriber count, read with the defaults, is within the threshold has a
\* record, with each missing or non-parsable statistic equal to 0.
C9_StatisticsDefaultToZero ==
    /\ failure # "record"
    /\ \A id \in seen_channels :
         LET resp == meta[id] IN
         (/\ HasItem(resp)
          /\ {"snippet", "statistics"} \subseteq DOMAIN resp.items[1]
          /\ Defaulted(resp.items[1].statistics, "subscriberCount") <= 50000)
         => \E i \in 1..Len(channels) :
              /\ channels[i].channelId = id
              /\ channels[i].subscribers = Defaulted(resp.items[1].statistics, "subscriberCount")
              /\ channels[i].totalViews = Defaulted(resp.items[1].statistics, "viewCount")
              /\ channels[i].totalVideos = Defaulted(resp.items[1].statistics, "videoCount")

C11_FieldsTyped ==
    \A i \in 1..Len(channels) :
        /\ channels[i].subscribers \in Int
        /\ channels[i].totalViews \in Int
        /\ channels[i].totalVideos \in Int
        /\ channels[i].channelId \in Ids
        /\ channels[i].name # None
        /\ channels[i].url # None
        /\ channels[i].country # None
        /\ channels[i].createDate # None
        /\ channels[i].email # None
        /\ channels[i].website # None

\* the description the metadata collaborator sent for a recorded channel
DescriptionOf(resp) == Get(resp.items[1].snippet, "description", <<>>)
Substrings(s) == {SubSeq(s, i, j) : i \in 1..Len(s), j \in 1..Len(s)}

\* C12: in every emitted record email and website are each a substring of
\* the channel's description or "N/A", never null, and each is decided on its
\* own: a description with an address and a foreign URL gives both, one with
\* an address only gives the address and "N/A", one with a URL only gives
\* "N/A" and the URL, one with neither (or no description) gives "N/A" twice.
C12_ContactFields ==
    \A i \in 1..Len(channels) :
        LET rec == channels[i]
            d == DescriptionOf(meta[rec.channelId])
        IN  /\ rec.email # None /\ rec.website # None
            /\ rec.email \in Substrings(d) \cup {NA}
            /\ rec.website \in Substrings(d) \cup {NA}
            /\ d = FullDescription
                  => /\ rec.email = <<"a", "@", "b", ".", "c", "o">>
                     /\ rec.website = <<"h", "t", "t", "p", "s", ":", "/", "/", "e", ".", "o", "r", "g">>
            /\ d = EmailOnlyDescription
                  => /\ rec.email = <<"x", ".", "y", "@", "b", ".", "c", "o", ".", "u", "k">>
                     /\ rec.website = NA
            /\ d = WebOnlyDescription
                  => /\ rec.email = NA
                     /\ rec.website = <<"h", "t", "t", "p", ":", "/", "/", "w", "w", "w", ".", "e", ".", "o", "r", "g", "/", "a">>
            /\ d \in {NoContactDescription, <<>>}
                  => rec.email = NA /\ rec.website = NA

\* C12 witness: one record with an address and no website next to one with a
\* website and no address.
C12_Witness ==
    \E i, j \in 1..Len(channels) :
        /\ channels[i].email # NA /\ channels[i].website = NA
        /\ channels[j].email = NA /\ channels[j].website # NA

\* C13: the SeenSet only grows: no step removes a member; a hit whose id is
\* in the set leaves the set and the output collection as they are; a hit
\* whose id is new adds exactly that id.
C13_SeenSetGrows ==
    /\ [][seen_channels \subseteq seen_channels']_vars
    /\ [][pc = "for"
            => IF response.items[idx] \in seen_channels
               THEN seen_channels' = seen_channels /\ channels' = channels
               ELSE /\ seen_channels' = seen_channels \cup {response.items[idx]}
                    /\ Cardinality(seen_channels') = Cardinality(seen_channels) + 1]_vars

\* C13 witness: the page returned a channel twice; it was looked up once and
\* is the one member of the SeenSet after the repeat was rejected.
C13_Witness ==
    \E i, j \in 1..Len(response.items) :
        /\ i < j
        /\ j < idx
        /\ response.items[i] = response.items[j]
        /\ lookups[response.items[i]] = 1
        /\ seen_channels = {response.items[i]}

\* C14: when the API credential is missing from the environment (unset, or
\* set to the empty string), the constructor raises before any network
\* activity: no client is built, no search and no metadata request is
\* issued, and the process does not get past the constructor.
C14_NoKeyNoNetwork ==
    (api_key = None \/ api_key = <<>>)
        => /\ pc \in {"start", "raised"}
           /\ youtube = None
           /\ pageNo = 0
           /\ response = NoResponse
           /\ \A id \in Ids : lookups[id] = 0
           /\ sink_calls = <<>>

\* C14 witness: the credential is unset and the constructor has raised.
C14_Witness == api_key = None /\ pc = "raised" /\ youtube = None

\* C15: once 50 records are accumulated, no step issues a metadata or a
\* search request or processes a further hit: the for loop and the while
\* loop are left, and the collection is as it was.
C15_StopsAtCap ==
    [][Len(channels) >= 50
          => /\ pc' \notin {"for", "while"}
             /\ lookups' = lookups
             /\ response' = response
             /\ pageNo' = pageNo
             /\ idx' = idx
             /\ seen_channels' = seen_channels
             /\ channels' = channels]_vars

\* C15 witness: the run returned with 50 records while a hit of the page,
\* never seen and never looked up, was left.
C15_Witness ==
    /\ pc = "returned"
    /\ failure = "none"
    /\ Len(channels) = 50
    /\ idx < Len(response.items)
    /\ response.items[idx + 1] \notin seen_channels
    /\ lookups[response.items[idx + 1]] = 0

\* C16: the metadata collaborator is asked at most once per channel id, and
\* exactly the ids in the SeenSet have been asked for.
C16_OneLookupPerChannel ==
    \A id \in Ids :
        /\ lookups[id] <= 1
        /\ lookups[id] = 1 <=> id \in seen_channels

\* C16 witness: a channel that was filtered out by the threshold was
\* returned again by the search and was not looked up again.
C16_Witness ==
    \E i, j \in 1..Len(response.items) :
        /\ i < j
        /\ j < idx
        /\ response.items[i] = response.items[j]
        /\ WellFormed(meta[response.items[i]])
        /\ SubscriberCount(meta[response.items[i]]) > 50000
        /\ lookups[response.items[i]] = 1

\* the position of the first hit for a channel id in the delivered page
FirstHit(cid) ==
    CHOOSE i \in 1..Len(response.items) :
        /\ response.items[i] = cid
        /\ \A j \in 1..(i - 1) : response.items[j] # cid

\* C17: the output collection is append-only and in admission order: a step
\* leaves it as it is or appends one record at its end; the records stand in
\* the order in which their hits were delivered; the sequence returned by a
\* run that was not aborted is the collection.
C17_AppendOnlyInOrder ==
    /\ [][\/ channels' = channels
          \/ /\ Len(channels') = Len(channels) + 1
             /\ SubSeq(channels', 1, Len(channels)) = channels]_vars
    /\ [](\A i, j \in 1..Len(channels) :
            i < j => FirstHit(channels[i].channelId) < FirstHit(channels[j].channelId))
    /\ []((pc \in {"returned", "saved"} /\ failure = "none") => returned = channels)

\* C17 witness: the run returned its records, the first two of them being
\* the records of the first two hits, in that order.
C17_Witness ==
    /\ pc = "returned"
    /\ failure = "none"
    /\ Len(returned) >= 2
    /\ returned[1].channelId = response.items[1]
    /\ returned[2].channelId = response.items[2]
    /\ returned[Len(returned)].channelId = response.items[Len(returned)]

\* C18: the channelId of every record of the output collection is in the
\* SeenSet, and the collection holds no more records than the set has
\* members.
C18_RecordsAreSeen ==
    /\ \A i \in 1..Len(channels) : channels[i].channelId \in seen_channels
    /\ Len(channels) <= Cardinality(seen_channels)

\* C18 witness: two channels were seen, one of them got a record.
C18_Witness ==
    /\ Len(channels) = 1
    /\ Cardinality(seen_channels) = 2
    /\ channels[1].channelId \in seen_channels

\* the step main takes once get_channels_from_country has returned: one call
\* of the sink, with what was returned; the sink is never called twice
SinkCalledOnce ==
    /\ [][pc = "returned" => sink_calls' = <<returned>>]_vars
    /\ [](Len(sink_calls) <= 1)
    /\ [](pc = "saved" => Len(sink_calls) = 1)

\* C19 as stated: after a search failure the sink is invoked once, with the
\* empty sequence, and the process does not end in a failure state; the sink
\* is invoked exactly once in every run in which the discovery returns.
C19_AbortedRunEndsWell ==
    /\ SinkCalledOnce
    /\ []((failure = "search" /\ pc \in {"saved", "raised"}) => sink_calls = << <<>> >>)
    /\ [](failure = "search" => pc # "raised")

\* C19 as amended: after a search failure the sink is invoked once, with the
\* empty sequence, and the process ends in a failure state only when that
\* call of the sink raised; the sink is invoked exactly once in every run in
\* which the discovery returns.
C19_AbortedRunReachesSink ==
    /\ SinkCalledOnce
    /\ []((failure = "search" /\ pc \in {"saved", "raised"}) => sink_calls = << <<>> >>)
    /\ []((failure = "search" /\ pc = "raised") => ~json_file.written)
    /\ []((failure = "search" /\ json_file.written) => (pc = "saved" /\ json_file.data = <<>>))

\* C19 witness: a search request failed, the sink was called once with the
\* empty sequence and wrote it, and the process ended well.
C19_Witness ==
    /\ failure = "search"
    /\ pc = "saved"
    /\ sink_calls = << <<>> >>
    /\ json_file = [written |-> TRUE, data |-> <<>>]

====
